---- MODULE Spec2Model ----
(***************************************************************************)
(* Model of standardize_HPO_symptom.py: the term search client, the        *)
(* synonym/definition resolver, the lineage resolver, the two lookup       *)
(* helpers and the matching pipeline, together with the number of times    *)
(* the ontology file is read.                                              *)
(*                                                                         *)
(* Python values: a value that may be None is an option, None == <<>> and  *)
(* a present value v is <<v>>; a Python tuple or list is a TLA+ tuple; a   *)
(* dict is a function whose DOMAIN is the set of its keys.                 *)
(***************************************************************************)
EXTENDS Integers, Sequences, FiniteSets, TLC

None == <<>>
Some(v) == <<v>>

\* dict.get(key, default)
Get(d, key, default) == IF key \in DOMAIN d THEN d[key] ELSE default

\* list(reversed(s))
Reversed(s) == [i \in 1..Len(s) |-> s[Len(s) + 1 - i]]

(***************************************************************************)
(* Bounds of the model.                                                    *)
(***************************************************************************)
MaxParents == 2     \* longest is_a list of a node
MaxLoads == 3       \* the model stops counting reads of the ontology file here
MaxHops == 4        \* a walk that has not returned after this many hops is left running

(***************************************************************************)
(* Program constants.                                                      *)
(***************************************************************************)
ROOT == "HP:0000001"
Threshold == 80

(***************************************************************************)
(* Identifiers, names and the attribute values the ontology file records.  *)
(***************************************************************************)
PTOSIS == "HP:0000508"
ATAXIA == "HP:0001251"
UNKNOWN == "HP:9999999"     \* never a node of the graph
AllNodes == {ROOT, PTOSIS, ATAXIA}
Ids == AllNodes \cup {UNKNOWN}
Names == {"Ptosis", "Ataxia"}
Symptoms == {"ptosis", "xyzzynonexistentsymptom"}
Scores == {0, 79, 80, 100}

\* str.lower() on the strings that occur
lower(s) ==
    CASE s = "Ptosis" -> "ptosis"
      [] s = "PTOSIS" -> "ptosis"
      [] s = "Ataxia" -> "ataxia"
      [] s = "Blepharoptosis" -> "blepharoptosis"
      [] s = "Cerebellar Ataxia" -> "cerebellar ataxia"
      [] s = "All" -> "all"
      [] OTHER -> s

\* The attributes other than is_a that the file records for a node: the root
\* has a name only, one term has synonyms and a definition, one term has
\* synonyms and no definition.
Attrs(n) ==
    CASE n = ROOT -> [name |-> "All"]
      [] n = PTOSIS -> [name |-> "Ptosis",
                        synonyms |-> <<"Blepharoptosis", "PTOSIS">>,
                        def |-> "Drooping of the upper eyelid"]
      [] n = ATAXIA -> [name |-> "Ataxia",
                        synonyms |-> <<"Cerebellar Ataxia">>]

Injective(s) == \A i, j \in 1..Len(s) : s[i] = s[j] => i = j

\* The is_a lists a node of the node set S can carry: distinct nodes of S
\* other than the node itself, in any order.
ParentLists(S, n) ==
    {s \in UNION {[1..k -> S \ {n}] : k \in 0..MaxParents} : Injective(s)}

\* The node dict of n with the is_a list ps (the key is absent when the
\* node lists no parent).
NodeDict(n, ps) == IF ps = <<>> THEN Attrs(n) ELSE Attrs(n) @@ [is_a |-> ps]

\* Every ontology graph over a non-empty subset of AllNodes: every parent a
\* node lists is itself a node of the graph.
Graphs ==
    UNION {{[n \in S |-> NodeDict(n, ps[n])] :
               ps \in {f \in [S -> UNION {ParentLists(S, n) : n \in S}] :
                          \A n \in S : f[n] \in ParentLists(S, n)}} :
           S \in (SUBSET AllNodes) \ {{}}}

(***************************************************************************)
(* The outcome of a function: it returns a value or raises an exception.   *)
(***************************************************************************)
Return(v) == [raised |-> FALSE, exc |-> "", val |-> v]
Raise(e) == [raised |-> TRUE, exc |-> e, val |-> <<>>]

(***************************************************************************)
(* Step 1: the term search client.                                         *)
(***************************************************************************)
\* response.json() of a 200 response: text that is not JSON, a JSON value that
\* is not an object, or an object.
Bodies ==
    {[type |-> "invalid"], [type |-> "array"], [type |-> "null"]}
    \cup {[type |-> "object", value |-> [message |-> "none"]],
          [type |-> "object", value |-> [terms |-> <<>>]]}
    \cup {[type |-> "object", value |-> [terms |-> <<[name |-> n, id |-> i]>>]] :
             n \in Names, i \in Ids}
    \cup {[type |-> "object", value |-> [terms |-> <<[id |-> i]>>]] : i \in Ids}
    \cup {[type |-> "object", value |-> [terms |-> <<[name |-> n]>>]] : n \in Names}

\* What requests.get(url, timeout=10) can produce for the search request.
Responses ==
    {[get |-> "ConnectionError"], [get |-> "Timeout"], [get |-> "ok", status |-> 500]}
    \cup {[get |-> "ok", status |-> 200, json |-> b] : b \in Bodies}

map_symptoms_to_hpo(resp) ==
    IF resp.get # "ok" THEN Return(<<None, None>>)                \* RequestException
    ELSE IF resp.status >= 400 THEN Return(<<None, None>>)        \* HTTPError
    ELSE IF resp.json.type = "invalid" THEN Return(<<None, None>>) \* ValueError
    ELSE IF resp.json.type # "object" THEN Raise("AttributeError") \* no .get on it
    ELSE LET results == Get(resp.json.value, "terms", <<>>) IN
         IF results = <<>> THEN Return(<<None, None>>)
         ELSE LET top == results[1] IN
              IF "name" \notin DOMAIN top \/ "id" \notin DOMAIN top
              THEN Raise("KeyError")
              ELSE Return(<<Some(top.name), Some(top.id)>>)

(***************************************************************************)
(* Step 3: synonyms and definition of a node (after the file is read).     *)
(***************************************************************************)
\* a resolver that hands a missing definition out as None
get_hpo_definitions_and_synonyms_no_sentinel(g, id) ==
    IF id \in DOMAIN g
    THEN <<Some(Get(g[id], "synonyms", <<>>)),
           IF "def" \in DOMAIN g[id] THEN Some(g[id].def) ELSE None>>
    ELSE <<None, None>>

get_hpo_definitions_and_synonyms(g, id) ==
    IF id \in DOMAIN g
    THEN <<Some(Get(g[id], "synonyms", <<>>)), Some(Get(g[id], "def", "NA"))>>
    ELSE <<None, None>>

(***************************************************************************)
(* Step 4: the parent the walk moves to.                                   *)
(***************************************************************************)
\* a walk that follows the last listed parent
take_last_parent(cur, parents) == parents[Len(parents)]

\* a walk that never moves off the node it stands on
stay_at_current(cur, parents) == cur

take_parent(cur, parents) == parents[1]

(***************************************************************************)
(* Step 5: the acceptance test.  The synonyms are iterated only when the   *)
(* score is below the threshold; iterating None raises TypeError.          *)
(***************************************************************************)
SeqRange(s) == {s[i] : i \in 1..Len(s)}

accept(score, term, syns) ==
    IF score >= Threshold THEN Return("matched")
    ELSE IF syns = None THEN Raise("TypeError")
    ELSE IF lower(term) \in {lower(x) : x \in SeqRange(syns[1])}
         THEN Return("matched")
         ELSE Return("not matched")

(***************************************************************************)
(* Helpers.                                                                *)
(***************************************************************************)
get_hpo_id_from_term(g, term) ==
    {n \in DOMAIN g : lower(Get(g[n], "name", "")) = lower(term)}

get_hpo_term_from_id(g, id) ==
    IF id \in DOMAIN g
    THEN IF "name" \in DOMAIN g[id] THEN Some(g[id].name) ELSE None
    ELSE None

(***************************************************************************)
(* State.                                                                  *)
(***************************************************************************)
VARIABLES
    graph,          \* the ontology the file holds: node -> dict
    loads,          \* number of times obonet.read_obo has run
    cached,         \* load_graph's lru_cache holds the graph
    fn,             \* the function called last (or running)
    arg,            \* its argument
    pc,             \* "ready", or the position inside the running call
    response,       \* the search response of this call
    hpo_term, hpo_id, fuzzy_score, synonyms, definition, rank, rpath,
                    \* locals of map_symptoms_to_hpo_pipeline
    path, depth, current,
                    \* locals of get_rank_and_path
    outcome,        \* "running", "returned" or "raised"
    ret,            \* the value returned
    exc             \* the exception raised

ontology == <<graph, loads, cached>>
locals == <<response, hpo_term, hpo_id, fuzzy_score, synonyms, definition, rank, rpath>>
walk == <<path, depth, current>>
result == <<outcome, ret, exc>>
vars == <<graph, loads, cached, fn, arg, pc, response, hpo_term, hpo_id, fuzzy_score,
          synonyms, definition, rank, rpath, path, depth, current, outcome, ret, exc>>

PIPELINE == "map_symptoms_to_hpo_pipeline"
DEMO_ID == "HP:0025142"

\* The module's last statements look one identifier up and print it: the
\* file has been read once when the import finishes.
Init ==
    /\ graph \in Graphs
    /\ loads = 1
    /\ cached = FALSE
    /\ fn = "get_hpo_term_from_id"
    /\ arg = DEMO_ID
    /\ pc = "ready"
    /\ response = None
    /\ hpo_term = None /\ hpo_id = None /\ fuzzy_score = 0
    /\ synonyms = None /\ definition = None /\ rank = None /\ rpath = <<>>
    /\ path = <<>> /\ depth = 0 /\ current = ""
    /\ outcome = "returned"
    /\ ret = get_hpo_term_from_id(graph, DEMO_ID)
    /\ exc = ""

\* A new call starts with fresh locals.
FreshLocals ==
    /\ hpo_term' = None /\ hpo_id' = None /\ fuzzy_score' = 0
    /\ synonyms' = None /\ definition' = None /\ rank' = None /\ rpath' = <<>>
FreshWalk == path' = <<>> /\ depth' = 0 /\ current' = ""

Returns(v) == outcome' = "returned" /\ ret' = v /\ exc' = "" /\ pc' = "ready"
Raises(e) == outcome' = "raised" /\ ret' = <<>> /\ exc' = e /\ pc' = "ready"
Running(p) == outcome' = "running" /\ ret' = <<>> /\ exc' = "" /\ pc' = p

Finish(r) == IF r.raised THEN Raises(r.exc) ELSE Returns(r.val)

\* obonet.read_obo(url)
ReadOBO == loads < MaxLoads /\ loads' = loads + 1

\* load_graph(): lru_cache(maxsize=1) reads the file on the first call only.
load_graph ==
    /\ cached \/ loads < MaxLoads
    /\ loads' = IF cached THEN loads ELSE loads + 1
    /\ cached' = TRUE

\* The reads one pipeline call that reaches step 4 performs.
PipelineReads == IF cached THEN 1 ELSE 2

(***************************************************************************)
(* Direct calls of the search client, the resolver and the helpers.        *)
(***************************************************************************)
Call_map_symptoms_to_hpo ==
    \E s \in Symptoms, resp \in Responses :
        /\ pc = "ready"
        /\ fn' = "map_symptoms_to_hpo" /\ arg' = s
        /\ response' = resp
        /\ Finish(map_symptoms_to_hpo(response'))
        /\ FreshLocals /\ FreshWalk
        /\ UNCHANGED ontology

Call_get_hpo_definitions_and_synonyms ==
    \E id \in Ids :
        /\ pc = "ready"
        /\ ReadOBO
        /\ fn' = "get_hpo_definitions_and_synonyms" /\ arg' = id
        /\ Returns(get_hpo_definitions_and_synonyms(graph, id))
        /\ response' = None /\ FreshLocals /\ FreshWalk
        /\ UNCHANGED <<graph, cached>>

Call_get_hpo_id_from_term ==
    \E term \in Names :
        /\ pc = "ready"
        /\ ReadOBO
        /\ fn' = "get_hpo_id_from_term" /\ arg' = term
        /\ LET found == get_hpo_id_from_term(graph, term) IN
           IF found = {} THEN Returns(None)
           ELSE \E n \in found : Returns(Some(n))
        /\ response' = None /\ FreshLocals /\ FreshWalk
        /\ UNCHANGED <<graph, cached>>

Call_get_hpo_term_from_id ==
    \E id \in Ids :
        /\ pc = "ready"
        /\ ReadOBO
        /\ fn' = "get_hpo_term_from_id" /\ arg' = id
        /\ Returns(get_hpo_term_from_id(graph, id))
        /\ response' = None /\ FreshLocals /\ FreshWalk
        /\ UNCHANGED <<graph, cached>>

(***************************************************************************)
(* get_rank_and_path: entry, then one action per iteration of the loop.    *)
(***************************************************************************)
\* The walk has ended with depth d and the traversal p.
WalkEnds(d, p) ==
    IF fn = PIPELINE
    THEN /\ rank' = Some(d) /\ rpath' = Reversed(p)
         /\ Running("step5")
         /\ UNCHANGED <<hpo_term, hpo_id, fuzzy_score, synonyms, definition>>
    ELSE /\ Returns(<<Some(d), Reversed(p)>>)
         /\ UNCHANGED <<hpo_term, hpo_id, fuzzy_score, synonyms, definition, rank, rpath>>

Call_get_rank_and_path ==
    \E id \in Ids :
        /\ pc = "ready"
        /\ load_graph
        /\ fn' = "get_rank_and_path" /\ arg' = id
        /\ response' = None /\ FreshLocals
        /\ IF id \notin DOMAIN graph
           THEN Returns(<<None, <<>>>>) /\ FreshWalk
           ELSE /\ path' = <<id>> /\ depth' = 0 /\ current' = id
                /\ Running("loop")
        /\ UNCHANGED graph

WalkStep ==
    /\ pc = "loop"
    /\ depth < MaxHops
    /\ LET parents == Get(graph[current], "is_a", <<>>) IN
       IF parents = <<>>
       THEN WalkEnds(depth, path) /\ UNCHANGED walk
       ELSE /\ current' = take_parent(current, parents)
            /\ path' = Append(path, current')
            /\ depth' = depth + 1
            /\ IF current' = ROOT
               THEN WalkEnds(depth', path')
               ELSE UNCHANGED <<pc, outcome, ret, exc, hpo_term, hpo_id, fuzzy_score,
                                synonyms, definition, rank, rpath>>
    /\ UNCHANGED <<ontology, fn, arg, response>>

(***************************************************************************)
(* map_symptoms_to_hpo_pipeline, one action per step.                      *)
(***************************************************************************)
Pipeline_Search ==
    \E s \in Symptoms, resp \in Responses :
        /\ pc = "ready"
        /\ loads + PipelineReads <= MaxLoads
        /\ fn' = PIPELINE /\ arg' = s
        /\ response' = resp
        /\ LET r == map_symptoms_to_hpo(response') IN
           IF r.raised
           THEN Raises(r.exc) /\ FreshLocals
           ELSE IF r.val[1] = None \/ r.val[2] = None
           THEN Returns(<<s, None, None, 0, "not matched">>) /\ FreshLocals
           ELSE /\ hpo_term' = r.val[1] /\ hpo_id' = r.val[2]
                /\ fuzzy_score' = 0 /\ synonyms' = None /\ definition' = None
                /\ rank' = None /\ rpath' = <<>>
                /\ Running("step2")
        /\ FreshWalk
        /\ UNCHANGED ontology

\* estimate_fuzzy_score: the symptom is a string, so the type check passes;
\* the score is whatever process.extractOne computes.
Pipeline_Score ==
    \E score \in Scores :
        /\ pc = "step2"
        /\ fuzzy_score' = score
        /\ pc' = "step3"
        /\ UNCHANGED <<ontology, fn, arg, response, hpo_term, hpo_id, synonyms, definition,
                       rank, rpath, walk, result>>

Pipeline_Resolve ==
    /\ pc = "step3"
    /\ ReadOBO
    /\ LET r == get_hpo_definitions_and_synonyms(graph, hpo_id[1]) IN
       synonyms' = r[1] /\ definition' = r[2]
    /\ pc' = "step4"
    /\ UNCHANGED <<graph, cached, fn, arg, response, hpo_term, hpo_id, fuzzy_score,
                   rank, rpath, walk, result>>

Pipeline_Lineage ==
    /\ pc = "step4"
    /\ load_graph
    /\ IF hpo_id[1] \notin DOMAIN graph
       THEN /\ rank' = None /\ rpath' = <<>>
            /\ pc' = "step5"
            /\ UNCHANGED walk
       ELSE /\ path' = <<hpo_id[1]>> /\ depth' = 0 /\ current' = hpo_id[1]
            /\ pc' = "loop"
            /\ UNCHANGED <<rank, rpath>>
    /\ UNCHANGED <<graph, fn, arg, response, hpo_term, hpo_id, fuzzy_score, synonyms,
                   definition, result>>

Pipeline_Accept ==
    /\ pc = "step5"
    /\ LET r == accept(fuzzy_score, hpo_term[1], synonyms) IN
       IF r.raised
       THEN Raises(r.exc)
       ELSE Returns(<<arg, hpo_term, hpo_id, definition, rank, rpath, fuzzy_score, r.val>>)
    /\ UNCHANGED <<ontology, fn, arg, locals, walk>>

Next ==
    \/ Call_map_symptoms_to_hpo
    \/ Call_get_hpo_definitions_and_synonyms
    \/ Call_get_hpo_id_from_term
    \/ Call_get_hpo_term_from_id
    \/ Call_get_rank_and_path
    \/ WalkStep
    \/ Pipeline_Search
    \/ Pipeline_Score
    \/ Pipeline_Resolve
    \/ Pipeline_Lineage
    \/ Pipeline_Accept

Spec == Init /\ [][Next]_vars

TypeOK ==
    /\ loads \in 1..MaxLoads
    /\ cached \in BOOLEAN
    /\ pc \in {"ready", "step2", "step3", "step4", "loop", "step5"}
    /\ outcome \in {"running", "returned", "raised"}
    /\ depth \in 0..MaxHops

\* The loop of get_rank_and_path is scheduled until it leaves the loop: the
\* program is single-threaded and the loop body does not block.
FairSpec == Spec /\ WF_vars(WalkStep)

(***************************************************************************)
(* Vocabulary of the properties.                                           *)
(***************************************************************************)
IsNode(id) == id \in DOMAIN graph
IsA(n) == IF "is_a" \in DOMAIN graph[n] THEN graph[n].is_a ELSE <<>>

PipelineEnded == fn = PIPELINE /\ pc = "ready"
HasCandidate == hpo_term # None /\ hpo_id # None

\* The first element of 'terms' carries a name and an id.
TopHasNameAndId(resp) ==
    /\ resp.get = "ok"
    /\ resp.status = 200
    /\ resp.json.type = "object"
    /\ "terms" \in DOMAIN resp.json.value
    /\ Len(resp.json.value.terms) >= 1
    /\ {"name", "id"} \subseteq DOMAIN resp.json.value.terms[1]

\* A lineage has been computed, by a direct call or by step 4 of the pipeline.
LineageDone ==
    \/ fn = "get_rank_and_path" /\ pc = "ready" /\ outcome = "returned"
    \/ fn = PIPELINE /\ pc = "step5"
LineageId == IF fn = PIPELINE THEN hpo_id[1] ELSE arg
LineageRank == IF fn = PIPELINE THEN rank ELSE ret[1]
LineagePath == IF fn = PIPELINE THEN rpath ELSE ret[2]
InLoop == pc = "loop"

\* The nodes reached from n by 1..k hops along first parents.
RECURSIVE FirstAncestors(_, _)
FirstAncestors(n, k) ==
    IF k = 0 \/ IsA(n) = <<>> THEN {}
    ELSE {IsA(n)[1]} \cup FirstAncestors(IsA(n)[1], k - 1)
AcyclicFirstParents ==
    \A n \in DOMAIN graph : n \notin FirstAncestors(n, Cardinality(DOMAIN graph))

(***************************************************************************)
(* C1: whenever the search step of the pipeline returned a candidate, the  *)
(* pipeline returns a status, and the status is 'matched' exactly when the *)
(* score is at least 80 or the lower-cased candidate name is among the     *)
(* lower-cased synonyms of the candidate identifier.                       *)
(***************************************************************************)
NameAmongSynonyms ==
    /\ IsNode(hpo_id[1])
    /\ "synonyms" \in DOMAIN graph[hpo_id[1]]
    /\ \E k \in 1..Len(graph[hpo_id[1]].synonyms) :
           lower(graph[hpo_id[1]].synonyms[k]) = lower(hpo_term[1])

C1_StatusIffAccepted ==
    (PipelineEnded /\ HasCandidate) =>
        /\ outcome = "returned"
        /\ ret[8] \in {"matched", "not matched"}
        /\ ret[8] = "matched" <=> (fuzzy_score >= 80 \/ NameAmongSynonyms)

(***************************************************************************)
(* C2: when the search step yields no candidate, the pipeline returns the  *)
(* eight-field result (symptom, None, None, None, None, [], 0,             *)
(* 'not matched').                                                         *)
(***************************************************************************)
C2_NoCandidateFullResult ==
    (PipelineEnded /\ outcome = "returned" /\ ~HasCandidate) =>
        /\ Len(ret) = 8
        /\ ret = <<arg, None, None, None, None, <<>>, 0, "not matched">>

(***************************************************************************)
(* C3: the search client never raises; it returns (name, id) when the      *)
(* first element of 'terms' carries both fields and (None, None) for every *)
(* other outcome of the remote call.                                       *)
(***************************************************************************)
C3_SearchNeverRaises ==
    (fn = "map_symptoms_to_hpo" /\ pc = "ready") =>
        /\ outcome = "returned"
        /\ ret = IF TopHasNameAndId(response)
                 THEN <<Some(response.json.value.terms[1].name),
                        Some(response.json.value.terms[1].id)>>
                 ELSE <<None, None>>

(***************************************************************************)
(* C4: the ontology file is read at most once in a process, however many   *)
(* calls are made.                                                         *)
(***************************************************************************)
C4_LoadedAtMostOnce == loads <= 1

(***************************************************************************)
(* C5: when the candidate identifier is not a node of the graph, the       *)
(* pipeline returns (it does not raise) with definition None, rank None    *)
(* and an empty path, and with status 'not matched' when the score is      *)
(* below 80.                                                               *)
(***************************************************************************)
C5_UnknownIdNotRaised ==
    (PipelineEnded /\ HasCandidate /\ ~IsNode(hpo_id[1])) =>
        /\ outcome = "returned"
        /\ ret[4] = None /\ ret[5] = None /\ ret[6] = <<>>
        /\ fuzzy_score < 80 => ret[8] = "not matched"

(***************************************************************************)
(* C6: for an identifier of the graph the returned path is non-empty, ends *)
(* with the identifier, starts at the root or at a node without parent,    *)
(* and no later element is the root or a node without parent.              *)
(***************************************************************************)
C6_PathRootToTerm ==
    (LineageDone /\ IsNode(LineageId)) =>
        LET p == LineagePath IN
        /\ Len(p) >= 1
        /\ p[Len(p)] = LineageId
        /\ p[1] = ROOT \/ IsA(p[1]) = <<>>
        /\ \A i \in 2..Len(p) : p[i] # ROOT /\ IsA(p[i]) # <<>>

(***************************************************************************)
(* C7: for the root identifier (whatever parents it lists) and for an      *)
(* identifier without parent the lineage is depth 0 and path [identifier]. *)
(***************************************************************************)
C7_RootOrOrphanDepthZero ==
    (LineageDone /\ IsNode(LineageId) /\ (LineageId = ROOT \/ IsA(LineageId) = <<>>)) =>
        /\ LineageRank = Some(0)
        /\ LineagePath = <<LineageId>>

(***************************************************************************)
(* C8: the resolver returns (None, None) exactly when the identifier is    *)
(* not a node; for a node it returns the recorded synonyms (an empty       *)
(* sequence when none are recorded, never None) and the recorded           *)
(* definition or 'NA'.                                                     *)
(***************************************************************************)
C8_ResolverDistinguishes ==
    (fn = "get_hpo_definitions_and_synonyms" /\ pc = "ready") =>
        /\ outcome = "returned"
        /\ Len(ret) = 2
        /\ (ret = <<None, None>>) <=> ~IsNode(arg)
        /\ IsNode(arg) =>
              /\ ret[1] # None /\ ret[2] # None
              /\ ret[1][1] = (IF "synonyms" \in DOMAIN graph[arg]
                              THEN graph[arg].synonyms ELSE <<>>)
              /\ ret[2][1] = (IF "def" \in DOMAIN graph[arg]
                              THEN graph[arg].def ELSE "NA")

\* a node without recorded definition and synonyms has been resolved
C8_Witness ==
    /\ fn = "get_hpo_definitions_and_synonyms" /\ pc = "ready"
    /\ IsNode(arg) /\ "def" \notin DOMAIN graph[arg]
    /\ ret = <<Some(<<>>), Some("NA")>>

C10_WalkBounded ==
    (AcyclicFirstParents /\ fn \in {"get_rank_and_path", PIPELINE}) =>
        /\ InLoop =>
              /\ depth < Cardinality(DOMAIN graph)
              /\ Injective(path)
              /\ depth < MaxHops
        /\ (LineageDone /\ IsNode(LineageId)) =>
              /\ LineageRank # None
              /\ LineageRank[1] < Cardinality(DOMAIN graph)
              /\ Injective(LineagePath)
        /\ (fn = "get_rank_and_path" /\ pc = "ready") => outcome = "returned"

\* C10: with acyclic first-parent links the bounds above hold in every state
\* and a walk that is in the loop eventually leaves it.
C10_WalkTerminates ==
    /\ []C10_WalkBounded
    /\ (InLoop /\ AcyclicFirstParents) ~> ~InLoop

\* a walk of two hops over three nodes has returned
C10_Witness ==
    /\ AcyclicFirstParents
    /\ fn = "get_rank_and_path" /\ pc = "ready" /\ outcome = "returned"
    /\ ret[1] = Some(2)

====
